---------------------------- MODULE Spec2Model ----------------------------
(***************************************************************************)
(* State-machine model of src/setup/sgx_scraper.py: the incremental        *)
(* crawl-and-ingest script (listing pages -> announcements -> attachments, *)
(* three key-based duplicate checks, a content-hash sliding window, a      *)
(* storage limit and a boundary year).                                     *)
(*                                                                         *)
(* The script is sequential; pc is its position.  Everything the script    *)
(* reads from the outside (the listing, a detail page, a link's href and   *)
(* text, the transferred bytes, the outcome of a file or history write)    *)
(* is chosen with \E at the step that reads it.                            *)
(*                                                                         *)
(* Sizes are counted in units of 256 MiB, so that the 1 GiB limit is 4;    *)
(* the window keeps 2 hashes instead of 50.  Both are the script's         *)
(* constants scaled down, every comparison is the script's.                *)
(*                                                                         *)
(* Variables that the script always re-assigns before reading them again   *)
(* are put back to their empty value when their loop body is left: pdf_url,*)
(* final_filename, response, file_hash, file_size at the end of an         *)
(* attachment; date_str, pdf_links, pdf_index and                          *)
(* downloaded_in_this_announcement at the end of an announcement.          *)
(***************************************************************************)
EXTENDS Integers, Sequences, FiniteSets, TLC

VARIABLES
    pc,                \* position of the script
    persisted,         \* downloads/download_history.json
    disk,              \* names of the files in downloads/ (other than the history file)
    history,           \* the history dict: [total_downloads, downloads]
    reached_2021,
    pdf_count,
    skipped_count,
    recent_hashes,     \* sequence of [hash, filename]
    page_num,
    announcement_urls,
    announcement_index,
    current_storage,
    announcement_url,
    date_str,
    pdf_links,         \* len(pdf_links) of the announcement being processed
    pdf_index,
    downloaded_in_this_announcement,
    pdf_url,
    final_filename,
    response,          \* response.content of the transfer in flight
    file_size,
    file_hash,
    faults             \* failures of the outside world so far (pages, links, transfers, writes)

vars == <<pc, persisted, disk, history, reached_2021, pdf_count, skipped_count,
          recent_hashes, page_num, announcement_urls, announcement_index,
          current_storage, announcement_url, date_str, pdf_links, pdf_index,
          downloaded_in_this_announcement, pdf_url, final_filename, response,
          file_size, file_hash, faults>>

---------------------------------------------------------------------------
(* Constants of the script *)

\* 1 GiB, in units of 256 MiB
STORAGE_LIMIT_BYTES == 4

\* 50 in the script; 2 here
SLIDING_WINDOW_SIZE == 2

\* the year compared with announcement_year
BOUNDARY_YEAR == 2021

LinksHost == "https://links.sgx.com"

\* the characters re.sub replaces by "_"
IllegalChars == {"<", ">", ":", "\"", "/", "\\", "|", "?", "*"}

---------------------------------------------------------------------------
(* Bounds of the model *)

\* listing pages that hold announcements; every later page is empty
MaxPages == 1

\* announcements on one listing page
MaxDocs == 2

\* attachment links on one detail page
MaxAtts == 2

\* failures of the outside world in one run
MaxFaults == 1

---------------------------------------------------------------------------
(* The outside world *)

\* datetime.now() of the run, as (year, month, day)
Today == <<2026, 11, 1>>

\* texts of the date element: day, month name, year (the time of day that
\* follows is cut by split()[0:3])
DateTexts == { <<30, "Jun", 2021>>,
               <<15, "Oct", 2025>>,
               <<15, "Okt", 2025>> }

\* the attachment links a detail page may show: href as a token sequence (a
\* relative href starts with "/"), text as a character sequence (<<>> is a
\* link without text)
Links == { [href |-> <<"/", "p1">>,            text |-> <<>>],
           [href |-> <<LinksHost, "/", "p1">>, text |-> <<"A", "?">>],
           [href |-> <<LinksHost, "/", "p2">>, text |-> <<"A", "_">>],
           [href |-> <<LinksHost, "/", "p3">>, text |-> <<>>],
           [href |-> <<LinksHost, "/", "p4">>, text |-> <<>>] }

\* bodies served
Contents == {"c1", "c2", "c3"}

NoContent == "none"

\* len(response.content)
Size(c) == CASE c = "c1" -> 2
             [] c = "c2" -> 1
             [] c = "c3" -> 2
             [] OTHER -> 0

\* the bytes a URL serves: p4 serves the same bytes as p1
Body(url) == CASE url[Len(url)] = "p1" -> "c1"
               [] url[Len(url)] = "p2" -> "c2"
               [] url[Len(url)] = "p3" -> "c3"
               [] OTHER -> "c1"

---------------------------------------------------------------------------
(* Pure helpers *)

MonthNames == <<"Jan", "Feb", "Mar", "Apr", "May", "Jun",
                "Jul", "Aug", "Sep", "Oct", "Nov", "Dec">>

\* datetime.strptime(..., '%d %b %Y') followed by strftime('%Y-%m-%d'):
\* the date as (year, month, day), or <<>> when strptime raises
ParseDate(t) ==
    IF \E i \in 1..12 : MonthNames[i] = t[2]
    THEN <<t[3], CHOOSE i \in 1..12 : MonthNames[i] = t[2], t[1]>>
    ELSE <<>>

\* pdf_url: a relative href gets the links host in front
ResolveUrl(pdf_href) ==
    IF Head(pdf_href) = "/" THEN <<LinksHost>> \o pdf_href ELSE pdf_href

\* re.sub(r'[<>:"/\\|?*]', '_', original_filename)
Sanitize(name) ==
    [i \in 1..Len(name) |-> IF name[i] \in IllegalChars THEN "_" ELSE name[i]]

\* pdf_text if pdf_text else pdf_href.split('/')[-1]
OriginalFilename(pdf_text, pdf_href) ==
    IF pdf_text # <<>> THEN pdf_text ELSE <<pdf_href[Len(pdf_href)]>>

\* f"{date_str}_{safe_filename}"
FinalFilename(date, pdf_text, pdf_href) ==
    <<date, "_">> \o Sanitize(OriginalFilename(pdf_text, pdf_href))

\* hashlib.sha256 of the file's bytes: distinct bodies, distinct digests
calculate_file_hash(content) == <<"sha256", content>>

RECURSIVE SumSizes(_)
SumSizes(records) ==
    IF records = <<>> THEN 0
    ELSE Head(records).file_size + SumSizes(Tail(records))

get_total_storage(h) == SumSizes(h.downloads)

\* is_duplicate: the reason of the first record that matches (per record the URL
\* before the filename), then the file on disk; "none" for (False, None)
RECURSIVE HistoryMatch(_, _, _)
HistoryMatch(url, filename, records) ==
    IF records = <<>> THEN "none"
    ELSE IF Head(records).pdf_url = url THEN "URL already in history"
    ELSE IF Head(records).filename = filename THEN "Filename already in history"
    ELSE HistoryMatch(url, filename, Tail(records))

\* is_duplicate without the comparison of pdf_url
is_duplicate_no_url(url, filename, h, files) ==
    IF \E i \in 1..Len(h.downloads) : h.downloads[i].filename = filename
    THEN "Filename already in history"
    ELSE IF filename \in files THEN "File already exists on disk"
    ELSE "none"

\* is_duplicate that compares the URL only
is_duplicate_url_only(url, filename, h, files) ==
    IF \E i \in 1..Len(h.downloads) : h.downloads[i].pdf_url = url
    THEN "URL already in history"
    ELSE "none"

\* is_duplicate that looks at the disk only
is_duplicate_disk_only(url, filename, h, files) ==
    IF filename \in files THEN "File already exists on disk" ELSE "none"

\* is_duplicate that compares file names without their date prefix
is_duplicate_any_date(url, filename, h, files) ==
    LET m == HistoryMatch(url, filename, h.downloads) IN
    IF m # "none" THEN m
    ELSE IF \E i \in 1..Len(h.downloads) :
                Tail(h.downloads[i].filename) = Tail(filename)
    THEN "Filename already in history"
    ELSE IF filename \in files THEN "File already exists on disk"
    ELSE "none"

is_duplicate(url, filename, h, files) ==
    LET m == HistoryMatch(url, filename, h.downloads) IN
    IF m # "none" THEN m
    ELSE IF filename \in files THEN "File already exists on disk"
    ELSE "none"

\* add_to_history that leaves the size out of the record; get_total_storage
\* reads a missing file_size as 0
add_to_history_no_size(h, url, filename, date, size) ==
    [h EXCEPT !.downloads = Append(@, [pdf_url |-> url,
                                        filename |-> filename,
                                        file_size |-> 0,
                                        date_from_announcement |-> date])]

\* add_to_history that puts the new record first
add_to_history_front(h, url, filename, date, size) ==
    [h EXCEPT !.downloads = <<[pdf_url |-> url,
                               filename |-> filename,
                               file_size |-> size,
                               date_from_announcement |-> date]>> \o @]

\* add_to_history; the fields of a record that the script never reads again
\* (announcement_url, announcement_title, download_date) are left out
add_to_history(h, url, filename, date, size) ==
    [h EXCEPT !.downloads = Append(@, [pdf_url |-> url,
                                        filename |-> filename,
                                        file_size |-> size,
                                        date_from_announcement |-> date])]

\* a window check that compares with the newest entry only
matching_hashes_newest(window, digest) ==
    IF window # <<>> /\ window[Len(window)].hash = digest
    THEN <<window[Len(window)]>>
    ELSE <<>>

\* [h for h in recent_hashes if h["hash"] == file_hash]
matching_hashes(window, digest) ==
    SelectSeq(window, LAMBDA e : e.hash = digest)

EmptyHistory == [total_downloads |-> 0, downloads |-> <<>>]

---------------------------------------------------------------------------
(* Initial state: before load_history.  The history file is absent, or was   *)
(* written by an earlier run, or is unreadable: text that json cannot parse, *)
(* here the damaged text of the file the earlier run wrote.                  *)

OldDate == <<2025, 10, 15>>

OldRecord == [pdf_url |-> <<LinksHost, "/", "p1">>,
              filename |-> <<OldDate, "_", "A", "_">>,
              file_size |-> 2,
              date_from_announcement |-> OldDate]

InitialFiles ==
    { [state |-> "absent",  total_downloads |-> 0, downloads |-> <<>>],
      [state |-> "valid",   total_downloads |-> 1, downloads |-> <<OldRecord>>],
      [state |-> "corrupt", total_downloads |-> 1, downloads |-> <<OldRecord>>] }

Init ==
    /\ pc = "load"
    /\ persisted \in InitialFiles
    /\ disk = IF persisted.state = "absent" THEN {} ELSE {OldRecord.filename}
    /\ history = EmptyHistory
    /\ reached_2021 = FALSE
    /\ pdf_count = 0
    /\ skipped_count = 0
    /\ recent_hashes = <<>>
    /\ page_num = 1
    /\ announcement_urls = <<>>
    /\ announcement_index = 0
    /\ current_storage = 0
    /\ announcement_url = <<>>
    /\ date_str = <<>>
    /\ pdf_links = 0
    /\ pdf_index = 0
    /\ downloaded_in_this_announcement = {}
    /\ pdf_url = <<>>
    /\ final_filename = <<>>
    /\ response = NoContent
    /\ file_size = 0
    /\ file_hash = <<>>
    /\ faults = 0

---------------------------------------------------------------------------
(* Steps of the script *)

\* one more failure of the outside world, while the bound allows it
Fault == faults < MaxFaults /\ faults' = faults + 1

NoFault == faults' = faults

\* what every step that ends an attachment does to the per-attachment variables
ClearAttachment ==
    /\ pdf_url' = <<>>
    /\ final_filename' = <<>>
    /\ response' = NoContent
    /\ file_size' = 0
    /\ file_hash' = <<>>

KeepAttachment == UNCHANGED <<pdf_url, final_filename, response, file_size, file_hash>>

\* what every step that ends an announcement does to the per-announcement variables
ClearAnnouncement ==
    /\ date_str' = <<>>
    /\ pdf_links' = 0
    /\ pdf_index' = 0
    /\ downloaded_in_this_announcement' = {}

\* a load that keeps what it can read of a damaged file
load_history_salvage(file) ==
    IF file.state \in {"valid", "corrupt"}
    THEN [total_downloads |-> file.total_downloads, downloads |-> file.downloads]
    ELSE EmptyHistory

\* load_history (lines 34-43): the parsed file, or a new empty history when
\* the file is absent or json.load raises
load_history(file) ==
    IF file.state = "valid"
    THEN [total_downloads |-> file.total_downloads, downloads |-> file.downloads]
    ELSE EmptyHistory

\* load_history() and the first get_total_storage (lines 107-108)
LoadHistory ==
    /\ pc = "load"
    /\ history' = load_history(persisted)
    /\ current_storage' = get_total_storage(history')
    /\ pc' = "page"
    /\ UNCHANGED <<persisted, disk, reached_2021, pdf_count, skipped_count,
                   recent_hashes, page_num, announcement_urls, announcement_index,
                   announcement_url, date_str, pdf_links, pdf_index,
                   downloaded_in_this_announcement>>
    /\ KeepAttachment
    /\ NoFault

\* the URLs of the n announcements of listing page p
Listing(p, n) == [i \in 1..n |-> <<p, i>>]

\* a page loop that treats an empty listing like the end of a page
GetListing_no_break ==
    /\ pc = "page"
    /\ ~reached_2021
    /\ \E n \in 0..MaxDocs :
        /\ (page_num > MaxPages => n = 0)
        /\ announcement_urls' = Listing(page_num, n)
        /\ pc' = IF n = 0 THEN "page_end" ELSE "ann"
        /\ announcement_index' = 0
    /\ UNCHANGED <<persisted, disk, history, reached_2021, pdf_count, skipped_count,
                   recent_hashes, page_num, current_storage, announcement_url,
                   date_str, pdf_links, pdf_index, downloaded_in_this_announcement>>
    /\ KeepAttachment
    /\ NoFault

\* head of the page loop: request the listing page, stop on an empty one
\* (lines 127-159)
GetListing ==
    /\ pc = "page"
    /\ ~reached_2021
    /\ \E n \in 0..MaxDocs :
        /\ (page_num > MaxPages => n = 0)
        /\ announcement_urls' = Listing(page_num, n)
        /\ IF n = 0
           THEN pc' = "summary" /\ UNCHANGED announcement_index
           ELSE pc' = "ann" /\ announcement_index' = 0
    /\ UNCHANGED <<persisted, disk, history, reached_2021, pdf_count, skipped_count,
                   recent_hashes, page_num, current_storage, announcement_url,
                   date_str, pdf_links, pdf_index, downloaded_in_this_announcement>>
    /\ KeepAttachment
    /\ NoFault

\* a storage check that lets a total equal to the limit through
storage_limit_reached_above(total) == total > STORAGE_LIMIT_BYTES

\* current_storage >= STORAGE_LIMIT_BYTES (line 164)
storage_limit_reached(total) == total >= STORAGE_LIMIT_BYTES

\* head of the announcement loop: the storage check, then the next
\* announcement (lines 161-171)
NextAnnouncement ==
    /\ pc = "ann"
    /\ IF announcement_index < Len(announcement_urls)
       THEN /\ current_storage' = get_total_storage(history)
            /\ IF storage_limit_reached(current_storage')
               THEN /\ reached_2021' = TRUE
                    /\ pc' = "page_end"
                    /\ UNCHANGED <<announcement_url, announcement_index>>
               ELSE /\ announcement_url' = announcement_urls[announcement_index + 1]
                    /\ announcement_index' = announcement_index + 1
                    /\ pc' = "visit"
                    /\ UNCHANGED reached_2021
       ELSE /\ pc' = "page_end"
            /\ UNCHANGED <<current_storage, reached_2021, announcement_url,
                           announcement_index>>
    /\ UNCHANGED <<persisted, disk, history, pdf_count, skipped_count,
                   recent_hashes, page_num, announcement_urls, date_str, pdf_links,
                   pdf_index, downloaded_in_this_announcement>>
    /\ KeepAttachment
    /\ NoFault

\* a boundary check that lets the boundary year itself through
ExtractDate_before(has_element, date_text) ==
    IF has_element /\ ParseDate(date_text) # <<>>
    THEN [date_str |-> ParseDate(date_text),
          old |-> ParseDate(date_text)[1] < BOUNDARY_YEAR]
    ELSE [date_str |-> Today, old |-> FALSE]

\* a date extraction that takes a date it cannot parse for an old one
ExtractDate_bad_date_old(has_element, date_text) ==
    IF has_element /\ ParseDate(date_text) # <<>>
    THEN [date_str |-> ParseDate(date_text),
          old |-> ParseDate(date_text)[1] <= BOUNDARY_YEAR]
    ELSE [date_str |-> Today, old |-> has_element]

\* the date of the detail page (lines 183-201): the date string and whether the
\* year is at or before the boundary year
ExtractDate(has_element, date_text) ==
    IF has_element /\ ParseDate(date_text) # <<>>
    THEN [date_str |-> ParseDate(date_text),
          old |-> ParseDate(date_text)[1] <= BOUNDARY_YEAR]
    ELSE [date_str |-> Today, old |-> FALSE]

\* visit the detail page, read its date and count its attachment links
\* (lines 173-213); a page that cannot be loaded raises into line 297
VisitAnnouncement ==
    /\ pc = "visit"
    /\ \/ /\ Fault
          /\ pc' = "announcement_error"
          /\ UNCHANGED <<reached_2021, date_str, pdf_links, pdf_index,
                         downloaded_in_this_announcement>>
       \/ \E has_element \in BOOLEAN, date_text \in DateTexts, n \in 0..MaxAtts :
            LET d == ExtractDate(has_element, date_text) IN
            /\ NoFault
            /\ date_str' = IF n = 0 THEN <<>> ELSE d.date_str
            /\ reached_2021' = (reached_2021 \/ d.old)
            /\ IF n = 0
               THEN /\ pc' = "ann"
                    /\ pdf_links' = 0
                    /\ pdf_index' = 0
                    /\ downloaded_in_this_announcement' = {}
               ELSE /\ pdf_links' = n
                    /\ pdf_index' = 0
                    /\ downloaded_in_this_announcement' = {}
                    /\ pc' = "att"
    /\ UNCHANGED <<persisted, disk, history, pdf_count, skipped_count,
                   recent_hashes, page_num, announcement_urls, announcement_index,
                   current_storage, announcement_url>>
    /\ KeepAttachment

\* head of the attachment loop: read the link, build the URL and the file name
\* (lines 216-232); a link without href raises into line 297
NextAttachment ==
    /\ pc = "att"
    /\ IF pdf_index < pdf_links
       THEN \/ /\ Fault
               /\ pc' = "announcement_error"
               /\ UNCHANGED <<date_str, pdf_links, pdf_index,
                              downloaded_in_this_announcement>>
               /\ KeepAttachment
            \/ \E pdf_link \in Links :
                /\ NoFault
                /\ pdf_index' = pdf_index + 1
                /\ pdf_url' = ResolveUrl(pdf_link.href)
                /\ final_filename' = FinalFilename(date_str, pdf_link.text,
                                                   pdf_link.href)
                /\ pc' = "dedup"
                /\ UNCHANGED <<response, file_size, file_hash, date_str, pdf_links,
                               downloaded_in_this_announcement>>
       ELSE /\ pc' = "ann"
            /\ NoFault
            /\ ClearAnnouncement
            /\ KeepAttachment
    /\ UNCHANGED <<persisted, disk, history, reached_2021, pdf_count, skipped_count,
                   recent_hashes, page_num, announcement_urls, announcement_index,
                   current_storage, announcement_url>>

\* the reason printed when the checks before the transfer skip the attachment
\* (lines 235-236 and 241-243), "none" when they let it through
dup_reason ==
    IF final_filename \in downloaded_in_this_announcement
    THEN "Same file already downloaded from this announcement"
    ELSE is_duplicate(pdf_url, final_filename, history, disk)

\* checks that put the name in the announcement's set as soon as it has passed
\* them, before the transfer
CheckDuplicate_marks ==
    /\ pc = "dedup"
    /\ IF dup_reason # "none"
       THEN /\ skipped_count' = skipped_count + 1
            /\ pc' = "att"
            /\ ClearAttachment
            /\ UNCHANGED downloaded_in_this_announcement
       ELSE /\ pc' = "download"
            /\ downloaded_in_this_announcement' =
                   downloaded_in_this_announcement \cup {final_filename}
            /\ UNCHANGED skipped_count
            /\ KeepAttachment
    /\ UNCHANGED <<persisted, disk, history, reached_2021, pdf_count,
                   recent_hashes, page_num, announcement_urls, announcement_index,
                   current_storage, announcement_url, date_str, pdf_links, pdf_index>>
    /\ NoFault

\* the checks made before the transfer (lines 234-245)
CheckDuplicate ==
    /\ pc = "dedup"
    /\ IF dup_reason # "none"
       THEN /\ skipped_count' = skipped_count + 1
            /\ pc' = "att"
            /\ ClearAttachment
       ELSE /\ pc' = "download"
            /\ UNCHANGED skipped_count
            /\ KeepAttachment
    /\ UNCHANGED <<persisted, disk, history, reached_2021, pdf_count,
                   recent_hashes, page_num, announcement_urls, announcement_index,
                   current_storage, announcement_url, date_str, pdf_links, pdf_index,
                   downloaded_in_this_announcement>>
    /\ NoFault

\* a transfer whose failure is not caught inside the attachment loop and ends
\* the announcement
Download_uncaught ==
    /\ pc = "download"
    /\ \/ /\ Fault
          /\ pc' = "announcement_error"
          /\ KeepAttachment
       \/ /\ NoFault
          /\ response' = Body(pdf_url)
          /\ pc' = "write"
          /\ UNCHANGED <<pdf_url, final_filename, file_size, file_hash>>
    /\ UNCHANGED <<persisted, disk, history, reached_2021, pdf_count, skipped_count,
                   recent_hashes, page_num, announcement_urls, announcement_index,
                   current_storage, announcement_url, date_str, pdf_links, pdf_index,
                   downloaded_in_this_announcement>>

\* requests.get and raise_for_status (lines 250-251); a failure is caught at
\* line 291
Download ==
    /\ pc = "download"
    /\ \/ /\ Fault
          /\ pc' = "download_error"
          /\ KeepAttachment
       \/ /\ NoFault
          /\ response' = Body(pdf_url)
          /\ pc' = "write"
          /\ UNCHANGED <<pdf_url, final_filename, file_size, file_hash>>
    /\ UNCHANGED <<persisted, disk, history, reached_2021, pdf_count, skipped_count,
                   recent_hashes, page_num, announcement_urls, announcement_index,
                   current_storage, announcement_url, date_str, pdf_links, pdf_index,
                   downloaded_in_this_announcement>>

\* open(file_path, 'wb') and f.write (lines 253-256).  open may raise before the
\* file exists; f.write may raise after open has created it.  Both are caught
\* at line 291, which removes nothing.
WriteFile ==
    /\ pc = "write"
    /\ \/ /\ NoFault
          /\ disk' = disk \cup {final_filename}
          /\ file_size' = Size(response)
          /\ pc' = "hash"
          /\ UNCHANGED <<pdf_url, final_filename, response, file_hash>>
       \/ /\ Fault
          /\ pc' = "download_error"
          /\ UNCHANGED disk
          /\ KeepAttachment
       \/ /\ Fault
          /\ disk' = disk \cup {final_filename}
          /\ pc' = "download_error"
          /\ KeepAttachment
    /\ UNCHANGED <<persisted, history, reached_2021, pdf_count, skipped_count,
                   recent_hashes, page_num, announcement_urls, announcement_index,
                   current_storage, announcement_url, date_str, pdf_links, pdf_index,
                   downloaded_in_this_announcement>>

\* a handler that counts the failed transfer as a skip
DownloadError_counts ==
    /\ pc = "download_error"
    /\ pc' = "att"
    /\ skipped_count' = skipped_count + 1
    /\ ClearAttachment
    /\ UNCHANGED <<persisted, disk, history, reached_2021, pdf_count,
                   recent_hashes, page_num, announcement_urls, announcement_index,
                   current_storage, announcement_url, date_str, pdf_links, pdf_index,
                   downloaded_in_this_announcement>>
    /\ NoFault

\* except Exception as download_error (lines 291-293): a message, then the
\* attachment loop goes on with the next link
DownloadError ==
    /\ pc = "download_error"
    /\ pc' = "att"
    /\ ClearAttachment
    /\ UNCHANGED <<persisted, disk, history, reached_2021, pdf_count, skipped_count,
                   recent_hashes, page_num, announcement_urls, announcement_index,
                   current_storage, announcement_url, date_str, pdf_links, pdf_index,
                   downloaded_in_this_announcement>>
    /\ NoFault

\* a handler that leaves the announcement loop instead of continuing it
AnnouncementError_break ==
    /\ pc = "announcement_error"
    /\ pc' = "page_end"
    /\ ClearAnnouncement
    /\ UNCHANGED <<persisted, disk, history, reached_2021, pdf_count, skipped_count,
                   recent_hashes, page_num, announcement_urls, announcement_index,
                   current_storage, announcement_url>>
    /\ KeepAttachment
    /\ NoFault

\* except Exception as e (lines 297-299): a message, then the announcement
\* loop goes on with the next announcement
AnnouncementError ==
    /\ pc = "announcement_error"
    /\ pc' = "ann"
    /\ ClearAnnouncement
    /\ UNCHANGED <<persisted, disk, history, reached_2021, pdf_count, skipped_count,
                   recent_hashes, page_num, announcement_urls, announcement_index,
                   current_storage, announcement_url>>
    /\ KeepAttachment
    /\ NoFault

\* the content hash and the sliding-window check (lines 259-269)
CheckHash ==
    /\ pc = "hash"
    /\ LET h == calculate_file_hash(response) IN
       IF matching_hashes(recent_hashes, h) # <<>>
       THEN /\ disk' = disk \ {final_filename}
            /\ skipped_count' = skipped_count + 1
            /\ pc' = "att"
            /\ ClearAttachment
       ELSE /\ file_hash' = h
            /\ pc' = "keep"
            /\ UNCHANGED <<disk, skipped_count, pdf_url, final_filename, response,
                           file_size>>
    /\ UNCHANGED <<persisted, history, reached_2021, pdf_count,
                   recent_hashes, page_num, announcement_urls, announcement_index,
                   current_storage, announcement_url, date_str, pdf_links, pdf_index,
                   downloaded_in_this_announcement>>
    /\ NoFault

\* pdf_count += 1 and add_to_history (lines 272-276)
KeepFile ==
    /\ pc = "keep"
    /\ pdf_count' = pdf_count + 1
    /\ history' = add_to_history(history, pdf_url, final_filename, date_str,
                                 file_size)
    /\ pc' = "save"
    /\ UNCHANGED <<persisted, disk, reached_2021, skipped_count,
                   recent_hashes, page_num, announcement_urls, announcement_index,
                   current_storage, announcement_url, date_str, pdf_links, pdf_index,
                   downloaded_in_this_announcement>>
    /\ KeepAttachment
    /\ NoFault

\* what save_history does to the dict before it opens the file (line 50)
StampHistory(h) == [h EXCEPT !.total_downloads = Len(h.downloads)]

\* the history file after open(history_file, 'w') and json.dump: written;
\* untouched when open raises; cut short when the dump raises after open has
\* truncated the file
FileWritten(h) == [state |-> "valid", total_downloads |-> h.total_downloads,
                   downloads |-> h.downloads]

FileCorrupt == [state |-> "corrupt", total_downloads |-> 0, downloads |-> <<>>]

\* save_history (lines 47-55, called at line 277): the IOError is caught
\* inside and the script goes on
SaveHistory ==
    /\ pc = "save"
    /\ history' = StampHistory(history)
    /\ \/ NoFault /\ persisted' = FileWritten(history')
       \/ Fault /\ persisted' = persisted
       \/ Fault /\ persisted' = FileCorrupt
    /\ pc' = "mark"
    /\ UNCHANGED <<disk, reached_2021, pdf_count, skipped_count,
                   recent_hashes, page_num, announcement_urls, announcement_index,
                   current_storage, announcement_url, date_str, pdf_links, pdf_index,
                   downloaded_in_this_announcement>>
    /\ KeepAttachment

\* downloaded_in_this_announcement.add (line 280)
MarkDownloaded ==
    /\ pc = "mark"
    /\ downloaded_in_this_announcement' =
           downloaded_in_this_announcement \cup {final_filename}
    /\ pc' = "push"
    /\ UNCHANGED <<persisted, disk, history, reached_2021, pdf_count, skipped_count,
                   recent_hashes, page_num, announcement_urls, announcement_index,
                   current_storage, announcement_url, date_str, pdf_links, pdf_index>>
    /\ KeepAttachment
    /\ NoFault

\* recent_hashes.append (line 283)
PushHash ==
    /\ pc = "push"
    /\ recent_hashes' = Append(recent_hashes,
                               [hash |-> file_hash, filename |-> final_filename])
    /\ pc' = "trim"
    /\ UNCHANGED <<persisted, disk, history, reached_2021, pdf_count, skipped_count,
                   page_num, announcement_urls, announcement_index,
                   current_storage, announcement_url, date_str, pdf_links, pdf_index,
                   downloaded_in_this_announcement>>
    /\ KeepAttachment
    /\ NoFault

\* a window that is cut back one entry too late
MaintainWindow_late(window) ==
    IF Len(window) > SLIDING_WINDOW_SIZE + 1 THEN Tail(window) ELSE window

\* a window that gives up its newest entry instead of its oldest
MaintainWindow_drop_newest(window) ==
    IF Len(window) > SLIDING_WINDOW_SIZE
    THEN SubSeq(window, 1, SLIDING_WINDOW_SIZE)
    ELSE window

\* if len(recent_hashes) > SLIDING_WINDOW_SIZE: recent_hashes.pop(0)
MaintainWindow(window) ==
    IF Len(window) > SLIDING_WINDOW_SIZE THEN Tail(window) ELSE window

\* the window is cut back and the storage re-read (lines 285-288)
TrimWindow ==
    /\ pc = "trim"
    /\ recent_hashes' = MaintainWindow(recent_hashes)
    /\ current_storage' = get_total_storage(history)
    /\ pc' = "att"
    /\ ClearAttachment
    /\ UNCHANGED <<persisted, disk, history, reached_2021, pdf_count, skipped_count,
                   page_num, announcement_urls, announcement_index,
                   announcement_url, date_str, pdf_links, pdf_index,
                   downloaded_in_this_announcement>>
    /\ NoFault

\* a page loop that asks for the same page again instead of the next one
PageEnd_same_page ==
    /\ pc = "page_end"
    /\ IF reached_2021
       THEN pc' = "summary" /\ UNCHANGED page_num
       ELSE pc' = "page" /\ UNCHANGED page_num
    /\ UNCHANGED <<persisted, disk, history, reached_2021, pdf_count, skipped_count,
                   recent_hashes, announcement_urls, announcement_index,
                   current_storage, announcement_url, date_str, pdf_links, pdf_index,
                   downloaded_in_this_announcement>>
    /\ KeepAttachment
    /\ NoFault

\* after the announcements of the page (lines 302-310)
PageEnd ==
    /\ pc = "page_end"
    /\ IF reached_2021
       THEN pc' = "summary" /\ UNCHANGED page_num
       ELSE pc' = "page" /\ page_num' = page_num + 1
    /\ UNCHANGED <<persisted, disk, history, reached_2021, pdf_count, skipped_count,
                   recent_hashes, announcement_urls, announcement_index,
                   current_storage, announcement_url, date_str, pdf_links, pdf_index,
                   downloaded_in_this_announcement>>
    /\ KeepAttachment
    /\ NoFault

\* the final summary (lines 313-325)
Summary ==
    /\ pc = "summary"
    /\ current_storage' = get_total_storage(history)
    /\ pc' = "done"
    /\ UNCHANGED <<persisted, disk, history, reached_2021, pdf_count, skipped_count,
                   recent_hashes, page_num, announcement_urls, announcement_index,
                   announcement_url, date_str, pdf_links, pdf_index,
                   downloaded_in_this_announcement>>
    /\ KeepAttachment
    /\ NoFault

Next ==
    \/ LoadHistory
    \/ GetListing
    \/ NextAnnouncement
    \/ VisitAnnouncement
    \/ NextAttachment
    \/ CheckDuplicate
    \/ Download
    \/ WriteFile
    \/ DownloadError
    \/ AnnouncementError
    \/ CheckHash
    \/ KeepFile
    \/ SaveHistory
    \/ MarkDownloaded
    \/ PushHash
    \/ TrimWindow
    \/ PageEnd
    \/ Summary

Spec == Init /\ [][Next]_vars

\* the run of a script whose every statement returns: each request of a page
\* and each transfer comes back or raises, so the script always takes its
\* next step
SpecFair == Init /\ [][Next]_vars /\ WF_vars(Next)

---------------------------------------------------------------------------
(* Properties *)

Records == history.downloads

TotalBytes == get_total_storage(history)

\* the records appended in this run: the last pdf_count of them
RunRecords == SubSeq(Records, Len(Records) - pdf_count + 1, Len(Records))

\* the digest of the bytes a record's file was written from
DigestOf(r) == calculate_file_hash(Body(r.pdf_url))

\* the largest file the site serves
MaxFileSize == CHOOSE m \in {Size(c) : c \in Contents} :
                   \A c \in Contents : Size(c) <= m

\* positions inside the processing of one announcement
DocStates == {"visit", "att", "dedup", "download", "write", "hash", "keep",
              "save", "mark", "push", "trim", "download_error",
              "announcement_error"}

\* C1: no two records of the history have the same pdf_url, and no two have
\* the same filename, whatever was processed, skipped or failed so far.
C1_UniqueKeys ==
    \A i, j \in 1..Len(Records) :
        i # j => /\ Records[i].pdf_url # Records[j].pdf_url
                 /\ Records[i].filename # Records[j].filename

\* a loaded record, two more retained in this run, one skip and one failure
C1_Witness ==
    /\ Len(Records) = 3
    /\ pdf_count = 2
    /\ skipped_count >= 1
    /\ faults >= 1

\* C2: an announcement is entered only from a storage check that found the
\* total strictly below the limit, and stays the same announcement until the
\* next check; a check that finds the total at or above the limit leaves the
\* page at once, and from there the run ends without another listing page,
\* announcement or transfer.
C2_BudgetStop ==
    [][ /\ (pc' \in DocStates /\ pc \notin DocStates)
               => (pc = "ann" /\ pc' = "visit"
                   /\ TotalBytes < STORAGE_LIMIT_BYTES)
        /\ (pc \in DocStates /\ pc' \in DocStates)
               => announcement_index' = announcement_index
        /\ (pc = "ann" /\ announcement_index < Len(announcement_urls)
                /\ TotalBytes >= STORAGE_LIMIT_BYTES)
               => (pc' = "page_end" /\ reached_2021'
                   /\ announcement_index' = announcement_index)
        /\ (pc = "page_end" /\ reached_2021)
               => (pc' = "summary" /\ page_num' = page_num)
        /\ (pc = "summary") => pc' = "done"
        /\ (pc = "done") => FALSE
      ]_vars

\* the run has ended on the storage check with an announcement of the page
\* still unvisited
C2_Witness ==
    /\ pc = "done"
    /\ announcement_urls # <<>>
    /\ announcement_index < Len(announcement_urls)
    /\ TotalBytes >= STORAGE_LIMIT_BYTES

\* C3: when the run has stopped after retaining files, the total exceeds the
\* limit by at most the size of one file (read in the claim's favour: the
\* largest file there is).
C3_OvershootOneFile ==
    (pc = "done" /\ pdf_count > 0)
        => TotalBytes <= STORAGE_LIMIT_BYTES + MaxFileSize

\* C4: among the files retained in this run, no two that are at most
\* SLIDING_WINDOW_SIZE retentions apart have the same digest; and when the file
\* just written has the digest of one of the last SLIDING_WINDOW_SIZE files
\* retained under another name, the step that compares the digests appends no
\* record, counts a skip and leaves no file of that name in storage.
C4_RenamedDuplicate ==
    /\ [](\A i, j \in 1..Len(RunRecords) :
            (i < j /\ j - i <= SLIDING_WINDOW_SIZE)
                => DigestOf(RunRecords[i]) # DigestOf(RunRecords[j]))
    /\ [][ (/\ pc = "hash"
            /\ \E i \in 1..Len(RunRecords) :
                 /\ Len(RunRecords) - i < SLIDING_WINDOW_SIZE
                 /\ DigestOf(RunRecords[i]) = calculate_file_hash(response)
                 /\ RunRecords[i].filename # final_filename)
           => (/\ history' = history
               /\ pdf_count' = pdf_count
               /\ skipped_count' = skipped_count + 1
               /\ final_filename \notin disk'
               /\ pc' = "att")
         ]_vars

\* the window is full and the file just written has the digest of its oldest
\* entry, under another name
C4_Witness ==
    /\ pc = "hash"
    /\ Len(recent_hashes) = SLIDING_WINDOW_SIZE
    /\ recent_hashes[1].hash = calculate_file_hash(response)
    /\ recent_hashes[1].filename # final_filename
    /\ final_filename \in disk

\* C5 as stated: the window never holds more than SLIDING_WINDOW_SIZE entries,
\* in any state.
C5_NeverOverCapacity == Len(recent_hashes) <= SLIDING_WINDOW_SIZE

\* C5 amended: the window holds at most SLIDING_WINDOW_SIZE entries except
\* between the append and the pop of one retention, where it holds at most one
\* more.
C5_CapacityOutsideInsert ==
    /\ Len(recent_hashes) <= SLIDING_WINDOW_SIZE + 1
    /\ (pc # "trim" => Len(recent_hashes) <= SLIDING_WINDOW_SIZE)

\* the window was full, an entry was evicted and the window is full again
C5_Witness ==
    /\ pc = "att"
    /\ pdf_count = SLIDING_WINDOW_SIZE + 1
    /\ Len(recent_hashes) = SLIDING_WINDOW_SIZE

\* C6 as stated: a parsed date at or before the boundary year sets the flag;
\* with the flag set, every remaining announcement of the page is visited;
\* after the page the run ends without a request for the next page.
C6_FinishPageAlways ==
    [][ /\ (pc = "visit" /\ date_str' # <<>>
                /\ date_str'[1] <= BOUNDARY_YEAR)
               => reached_2021'
        /\ (pc = "ann" /\ reached_2021
                /\ announcement_index < Len(announcement_urls))
               => (pc' = "visit"
                   /\ announcement_index' = announcement_index + 1)
        /\ (pc = "page_end" /\ reached_2021)
               => (pc' = "summary" /\ page_num' = page_num)
      ]_vars

\* C6 amended: as C6, but a remaining announcement of the page is visited only
\* if the storage check before it finds the total below the limit; otherwise
\* the page is left at once.  Either way the next page is never requested.
C6_FinishPageUnlessBudget ==
    [][ /\ (pc = "visit" /\ date_str' # <<>>
                /\ date_str'[1] <= BOUNDARY_YEAR)
               => reached_2021'
        /\ (pc = "ann" /\ reached_2021
                /\ announcement_index < Len(announcement_urls)
                /\ TotalBytes < STORAGE_LIMIT_BYTES)
               => (pc' = "visit"
                   /\ announcement_index' = announcement_index + 1)
        /\ (pc = "ann" /\ reached_2021
                /\ announcement_index < Len(announcement_urls)
                /\ TotalBytes >= STORAGE_LIMIT_BYTES)
               => pc' = "page_end"
        /\ (pc = "ann" /\ reached_2021) => pc' \in {"visit", "page_end"}
        /\ (pc = "page_end" /\ reached_2021)
               => (pc' = "summary" /\ page_num' = page_num)
        /\ reached_2021 => (reached_2021' /\ page_num' = page_num)
      ]_vars

\* the second announcement of the page is visited although the first one set
\* the flag
C6_Witness ==
    /\ pc = "visit"
    /\ reached_2021
    /\ announcement_index = 2
    /\ TotalBytes < STORAGE_LIMIT_BYTES

\* C7: a listing page without announcement links ends the run at once: the
\* summary is the next step, no page is requested after it, and the history,
\* the history file, the files and both counts stay what they were when the
\* page was requested; the summary reports them unchanged.
C7_EmptyPageStops ==
    [][ /\ (pc = "page" /\ announcement_urls' = <<>>)
               => (/\ pc' = "summary"
                   /\ UNCHANGED <<history, persisted, disk, pdf_count,
                                  skipped_count, page_num, recent_hashes,
                                  reached_2021>>)
        /\ (pc = "summary")
               => (/\ pc' = "done"
                   /\ current_storage' = TotalBytes
                   /\ history.total_downloads = Len(Records)
                   /\ UNCHANGED <<history, persisted, disk, pdf_count,
                                  skipped_count, page_num, recent_hashes,
                                  reached_2021>>)
        /\ (pc = "done") => FALSE
      ]_vars

\* the run has ended on the empty second page, with a file retained and an
\* attachment skipped on the first
C7_Witness ==
    /\ pc = "done"
    /\ page_num = 2
    /\ announcement_urls = <<>>
    /\ ~reached_2021
    /\ pdf_count >= 1
    /\ skipped_count >= 1

\* an attachment that tiers 1 to 3 reject
KeyDuplicate ==
    \/ final_filename \in downloaded_in_this_announcement
    \/ \E i \in 1..Len(Records) :
          \/ Records[i].pdf_url = pdf_url
          \/ Records[i].filename = final_filename

\* C8: an attachment whose file name is in the announcement's set, or whose URL
\* or file name is in the history, is skipped by the check itself: no transfer
\* is started and no file is written.  A transfer starts only after a check
\* that found no such match, and files change only while a transfer's body is
\* written or compared.
C8_NoTransferForKeyDuplicate ==
    [][ /\ (pc = "dedup" /\ KeyDuplicate)
               => (/\ pc' = "att"
                   /\ skipped_count' = skipped_count + 1
                   /\ UNCHANGED <<disk, history, persisted, pdf_count,
                                  recent_hashes>>)
        /\ (pc' = "download") => (pc = "dedup" /\ ~KeyDuplicate)
        /\ (disk' # disk) => pc \in {"write", "hash"}
      ]_vars

\* the check is about to reject a new URL whose file name a record already has
C8_Witness ==
    /\ pc = "dedup"
    /\ final_filename \notin downloaded_in_this_announcement
    /\ \E i \in 1..Len(Records) : Records[i].filename = final_filename
    /\ \A i \in 1..Len(Records) : Records[i].pdf_url # pdf_url

\* C9: outside the steps between writing a file and recording it, every file
\* in storage was there at the start of the run or is the file of a history
\* record: no attachment that was skipped or failed has left a file behind.
C9_NoOrphanFiles ==
    (pc \notin {"hash", "keep"})
        => disk \subseteq ({OldRecord.filename}
                           \cup {Records[i].filename : i \in 1..Len(Records)})

\* C10: when save_history does not leave the current history in the history
\* file, the run ends: the next step is the summary.
C10_SaveFailureStopsRun ==
    [][ (pc = "save" /\ persisted' # FileWritten(history'))
            => pc' \in {"summary", "done"} ]_vars


\* C11: an attachment whose history write failed is not retained.  Read in the
\* claim's favour, any time up to the end of the attachment is allowed for the
\* undoing: once the attachment is over and the history file is readable, the
\* history in memory holds the records of the file and no other, and every
\* entry of the window belongs to a record of the file.
C11_FailedAppendNotRetained ==
    (/\ pc \notin {"load", "save", "mark", "push", "trim"}
     /\ persisted.state # "corrupt")
        => /\ Records = load_history(persisted).downloads
           /\ \A i \in 1..Len(recent_hashes) :
                \E j \in 1..Len(persisted.downloads) :
                    persisted.downloads[j].filename = recent_hashes[i].filename

\* C13: a transfer that fails is caught inside the attachment loop: no record
\* is appended, the history file, the files, the window and both counts stay
\* as they were, and the loop goes on: the next link of the announcement is
\* read when there is one, otherwise the next announcement gets its storage
\* check and, with the total below the limit, is visited.
C13_TransferFailureNonFatal ==
    [][ /\ (pc = "download" /\ pc' # "write")
               => (/\ pc' = "download_error"
                   /\ UNCHANGED <<history, persisted, disk, pdf_count,
                                  skipped_count, recent_hashes, reached_2021,
                                  pdf_links, pdf_index, announcement_urls,
                                  announcement_index, page_num,
                                  downloaded_in_this_announcement>>)
        /\ (pc = "download_error")
               => (/\ pc' = "att"
                   /\ UNCHANGED <<history, persisted, disk, pdf_count,
                                  skipped_count, recent_hashes, reached_2021,
                                  pdf_links, pdf_index, announcement_urls,
                                  announcement_index, page_num,
                                  downloaded_in_this_announcement>>)
        /\ (pc = "att" /\ pdf_index < pdf_links)
               => \/ pc' = "dedup" /\ pdf_index' = pdf_index + 1
                  \/ pc' = "announcement_error" /\ faults' = faults + 1
        /\ (pc = "att" /\ pdf_index >= pdf_links)
               => (pc' = "ann" /\ UNCHANGED <<announcement_urls,
                                              announcement_index>>)
        /\ (pc = "ann" /\ announcement_index < Len(announcement_urls)
                /\ TotalBytes < STORAGE_LIMIT_BYTES)
               => (pc' = "visit"
                   /\ announcement_index' = announcement_index + 1)
      ]_vars

\* the transfer of the first attachment has failed and the announcement has
\* another link
C13_Witness ==
    /\ pc = "download_error"
    /\ response = NoContent
    /\ pdf_index = 1
    /\ pdf_links = 2
    /\ announcement_index < Len(announcement_urls)

\* C14 as stated: when a detail page cannot be loaded or processed, no record
\* has been appended for that announcement, the failure leaves the history and
\* the window unchanged, and the announcement loop goes on with the next
\* announcement.
C14_NoRecordForFailedPage ==
    [][ /\ (pc' = "announcement_error")
               => (/\ downloaded_in_this_announcement = {}
                   /\ UNCHANGED <<history, persisted, recent_hashes>>)
        /\ (pc = "announcement_error")
               => (/\ pc' = "ann"
                   /\ UNCHANGED <<history, persisted, recent_hashes,
                                  announcement_urls, announcement_index>>)
      ]_vars

\* C14 amended: the failure and its handler append no record and leave the
\* history, the history file, the files, the window and both counts
\* unchanged, and the announcement loop goes on with the storage check of the
\* next announcement; the attachments of the announcement that were retained
\* before the failure keep their records.
C14_PageFailureNonFatal ==
    [][ /\ (pc' = "announcement_error")
               => (/\ pc \in {"visit", "att"}
                   /\ UNCHANGED <<history, persisted, disk, recent_hashes,
                                  pdf_count, skipped_count, reached_2021,
                                  announcement_urls, announcement_index,
                                  page_num>>)
        /\ (pc = "announcement_error")
               => (/\ pc' = "ann"
                   /\ UNCHANGED <<history, persisted, disk, recent_hashes,
                                  pdf_count, skipped_count, reached_2021,
                                  announcement_urls, announcement_index,
                                  page_num>>)
        /\ (pc = "ann" /\ announcement_index < Len(announcement_urls)
                /\ TotalBytes < STORAGE_LIMIT_BYTES)
               => (pc' = "visit"
                   /\ announcement_index' = announcement_index + 1)
      ]_vars

\* the second link of the page cannot be read after the first was retained,
\* and the listing has another announcement
C14_Witness ==
    /\ pc = "announcement_error"
    /\ downloaded_in_this_announcement # {}
    /\ announcement_index < Len(announcement_urls)

\* C15: with a history file that exists and cannot be parsed, the run starts
\* from the empty history: no record, total 0, nothing of the file's text; the
\* file is left as it is and the run goes on to the first listing page and
\* from there into its announcements or, on an empty page, to the summary.
C15_CorruptHistoryStartsEmpty ==
    [][ /\ (pc = "load" /\ persisted.state = "corrupt")
               => (/\ history' = EmptyHistory
                   /\ get_total_storage(history') = 0
                   /\ current_storage' = 0
                   /\ pdf_count' = 0
                   /\ recent_hashes' = <<>>
                   /\ UNCHANGED <<persisted, disk>>
                   /\ pc' = "page")
        /\ (pc = "page" /\ page_num = 1)
               => (/\ pc' \in {"ann", "summary"}
                   /\ pc' = "ann" <=> announcement_urls' # <<>>)
      ]_vars

\* the run that started from the unreadable file has reached a transfer, with
\* no record in memory and the file still unreadable
C15_Witness ==
    /\ pc = "download"
    /\ persisted.state = "corrupt"
    /\ persisted.downloads # <<>>
    /\ Records = <<>>

\* the record and the window entry of the attachment in hand
NewRecord == [pdf_url |-> pdf_url, filename |-> final_filename,
              file_size |-> file_size, date_from_announcement |-> date_str]

NewEntry == [hash |-> calculate_file_hash(response), filename |-> final_filename]

\* from the comparison of the digests to the end of the attachment: a digest
\* that no window entry has makes the attachment retained, with one record
\* appended to the history and its (digest, filename) the newest window entry
RetainSteps ==
    /\ (pc = "hash" /\ \A i \in 1..Len(recent_hashes) :
                           recent_hashes[i].hash # calculate_file_hash(response))
           => (pc' = "keep" /\ UNCHANGED <<disk, history, skipped_count>>)
    /\ (pc = "keep")
           => (/\ Records' = Append(Records, NewRecord)
               /\ pdf_count' = pdf_count + 1
               /\ pc' = "save")
    /\ (pc = "save") => (Records' = Records /\ pc' = "mark")
    /\ (pc = "mark") => (Records' = Records /\ pc' = "push")
    /\ (pc = "push")
           => (/\ recent_hashes' = Append(recent_hashes, NewEntry)
               /\ Records' = Records
               /\ pc' = "trim")
    /\ (pc = "trim")
           => (/\ recent_hashes'[Len(recent_hashes')] = NewEntry
               /\ Records[Len(Records)] = NewRecord
               /\ Records' = Records
               /\ final_filename \in disk'
               /\ pc' = "att")

\* C16 as stated: an attachment whose file name is not in the announcement's
\* set and whose URL and file name are in no record goes to the transfer,
\* whatever the download folder holds; with the transfer and the write done
\* and its digest in no window entry it is retained: one record appended, its
\* (digest, filename) the newest window entry.
C16_UniqueVerdict ==
    [][ /\ (pc = "dedup" /\ ~KeyDuplicate)
               => (pc' = "download" /\ skipped_count' = skipped_count)
        /\ (pc = "download" /\ faults' = faults) => pc' = "write"
        /\ (pc = "write" /\ faults' = faults) => pc' = "hash"
        /\ RetainSteps
      ]_vars

\* C16 amended: as C16, for an attachment of whose file name there is no file
\* in the download folder; one whose file name is there is skipped by the
\* check, without a transfer, as a duplicate.
C16_UniqueVerdictOffDisk ==
    [][ /\ (pc = "dedup" /\ ~KeyDuplicate /\ final_filename \notin disk)
               => (pc' = "download" /\ skipped_count' = skipped_count)
        /\ (pc = "dedup" /\ ~KeyDuplicate /\ final_filename \in disk)
               => (/\ pc' = "att"
                   /\ skipped_count' = skipped_count + 1
                   /\ UNCHANGED <<history, disk, recent_hashes, pdf_count>>)
        /\ (pc = "download" /\ faults' = faults) => pc' = "write"
        /\ (pc = "write" /\ faults' = faults) => pc' = "hash"
        /\ RetainSteps
      ]_vars

\* an attachment that matched nothing is being retained beside earlier
\* records: its record is the last of the history and its entry the newest of
\* the window
C16_Witness ==
    /\ pc = "trim"
    /\ Len(Records) >= 2
    /\ Records[Len(Records)] = NewRecord
    /\ recent_hashes[Len(recent_hashes)] = NewEntry
    /\ \A i \in 1..(Len(Records) - 1) :
          /\ Records[i].pdf_url # pdf_url
          /\ Records[i].filename # final_filename

\* C17: the reason reported for a skip is that of the first tier that matches,
\* in the order same-batch name, URL, file name: a name in the announcement's
\* set is reported as such; otherwise a URL that some record has is reported
\* as a URL match, whichever record has the file name; otherwise a file name
\* that some record has is reported as a file name match.
C17_FirstTierWins ==
    (pc = "dedup")
        => /\ (final_filename \in downloaded_in_this_announcement)
                  => dup_reason =
                         "Same file already downloaded from this announcement"
           /\ (/\ final_filename \notin downloaded_in_this_announcement
               /\ \E i \in 1..Len(Records) : Records[i].pdf_url = pdf_url)
                  => dup_reason = "URL already in history"
           /\ (/\ final_filename \notin downloaded_in_this_announcement
               /\ \A i \in 1..Len(Records) : Records[i].pdf_url # pdf_url
               /\ \E i \in 1..Len(Records) :
                     Records[i].filename = final_filename)
                  => dup_reason = "Filename already in history"

\* the dates the site's date texts parse to
ParsedDates == {ParseDate(t) : t \in DateTexts} \ {<<>>}

\* C18: a detail page without a date element, or with a date text that cannot
\* be parsed, gets the date of the run and does not count as old; an
\* announcement that takes the date of the run leaves the boundary flag as it
\* was and goes on to its attachments; and every record appended carries the
\* date of its announcement, as its date and as the prefix of its file name.
C18_DateFallback ==
    /\ [](\A t \in DateTexts :
            /\ ExtractDate(FALSE, t) = [date_str |-> Today, old |-> FALSE]
            /\ (ParseDate(t) = <<>>)
                  => ExtractDate(TRUE, t) = [date_str |-> Today, old |-> FALSE])
    /\ [][ /\ (pc = "visit" /\ pc' = "att")
                   => date_str' \in ParsedDates \cup {Today}
           /\ (pc = "visit" /\ pc' = "att" /\ date_str' = Today)
                   => (reached_2021' = reached_2021 /\ pdf_links' > 0)
           /\ (pc = "keep")
                   => (/\ Records'[Len(Records')].date_from_announcement
                             = date_str
                       /\ Records'[Len(Records')].filename[1] = date_str)
         ]_vars

\* a file of an announcement without a readable date was retained under the
\* date of the run, the flag is not set and the next announcement is visited
C18_Witness ==
    /\ pc = "visit"
    /\ announcement_index = 2
    /\ ~reached_2021
    /\ pdf_count >= 1
    /\ Records[Len(Records)].date_from_announcement = Today
    /\ Records[Len(Records)].filename[1] = Today

\* the sum of f over the records with index in I
RECURSIVE SumOverRecords(_, _)
SumOverRecords(f(_), I) ==
    IF I = {} THEN 0
    ELSE LET i == CHOOSE k \in I : TRUE
         IN f(Records[i]) + SumOverRecords(f, I \ {i})

RecordedSize(r) == r.file_size

ServedSize(r) == Size(Body(r.pdf_url))

\* C19: in every state the total that get_total_storage gives is the sum of
\* file_size over the records of the history, and that is the number of bytes
\* of the files the records stand for; the total the script holds is that
\* sum whenever it is not between an append and the re-read after it; an
\* append raises the total by the size of the file written, and no other
\* step of the run changes it.
C19_Accounting ==
    /\ [](/\ TotalBytes = SumOverRecords(RecordedSize, 1..Len(Records))
          /\ TotalBytes = SumOverRecords(ServedSize, 1..Len(Records))
          /\ (pc \notin {"load", "save", "mark", "push", "trim"})
                => current_storage = TotalBytes)
    /\ [][ /\ (pc = "keep")
                  => get_total_storage(history')
                        = TotalBytes + Size(response)
           /\ (pc \notin {"keep", "load"})
                  => get_total_storage(history') = TotalBytes
         ]_vars

\* a loaded record and two appended ones of different sizes, with a skip in
\* between
C19_Witness ==
    /\ pc = "att"
    /\ Len(Records) = 3
    /\ pdf_count = 2
    /\ skipped_count >= 1
    /\ Records[2].file_size # Records[3].file_size
    /\ TotalBytes = 5

\* the window entry of a retained file
EntryOf(r) == [hash |-> DigestOf(r), filename |-> r.filename]

\* the entries of the last m files retained in this run, oldest first
LastRetained(m) ==
    [i \in 1..m |-> EntryOf(RunRecords[Len(RunRecords) - m + i])]

\* C20: the window is empty when the run starts; outside the statements of a
\* retention it holds the (digest, filename) pairs of the last
\* min(SLIDING_WINDOW_SIZE, k) of the k files retained in this run, in the
\* order they were retained; a retention appends its pair as the newest entry,
\* the cut that follows removes the oldest entry and only when the window is
\* over its size, and no other step changes the window.
C20_FifoWindow ==
    /\ []((pc = "load") => recent_hashes = <<>>)
    /\ []((pc \notin {"save", "mark", "push", "trim"})
            => recent_hashes =
                   LastRetained(IF pdf_count < SLIDING_WINDOW_SIZE
                                THEN pdf_count ELSE SLIDING_WINDOW_SIZE))
    /\ [][ /\ (pc = "push")
                  => recent_hashes' = Append(recent_hashes, NewEntry)
           /\ (pc = "trim" /\ Len(recent_hashes) > SLIDING_WINDOW_SIZE)
                  => recent_hashes' = Tail(recent_hashes)
           /\ (pc = "trim" /\ Len(recent_hashes) <= SLIDING_WINDOW_SIZE)
                  => recent_hashes' = recent_hashes
           /\ (pc \notin {"push", "trim"})
                  => recent_hashes' = recent_hashes
         ]_vars

\* three files were retained in this run: the window holds the second and the
\* third, the first was evicted
C20_Witness ==
    /\ pc = "att"
    /\ pdf_count = SLIDING_WINDOW_SIZE + 1
    /\ Len(recent_hashes) = SLIDING_WINDOW_SIZE
    /\ recent_hashes[SLIDING_WINDOW_SIZE].filename
           = Records[Len(Records)].filename
    /\ \A i \in 1..Len(recent_hashes) :
          recent_hashes[i].filename # RunRecords[1].filename

C22_PageOrder ==
    /\ []((pc = "load") => page_num = 1)
    /\ [][ /\ (pc' = "page")
                  => \/ pc = "load" /\ page_num' = 1
                     \/ /\ pc = "page_end"
                        /\ page_num' = page_num + 1
                        /\ ~reached_2021
                        /\ announcement_index = Len(announcement_urls)
           /\ (page_num' # page_num) => pc' = "page"
           /\ (announcement_urls' # announcement_urls) => pc = "page"
           /\ (pc' = "visit")
                  => (/\ pc = "ann"
                      /\ announcement_index' = announcement_index + 1
                      /\ announcement_url' =
                             announcement_urls[announcement_index'])
           /\ (announcement_index' # announcement_index)
                  => \/ pc = "ann" /\ pc' = "visit"
                     \/ pc = "page" /\ announcement_index' = 0
           /\ (pc = "page")
                  => \A i, j \in 1..Len(announcement_urls') :
                        i # j => announcement_urls'[i] # announcement_urls'[j]
         ]_vars

\* the page after the first is about to be requested: both announcements of
\* the first page were gone through and no stop condition fired
C22_Witness ==
    /\ pc = "page"
    /\ page_num = 2
    /\ Len(announcement_urls) = 2
    /\ announcement_index = 2
    /\ ~reached_2021

---------------------------------------------------------------------------
(* The run with crashes *)

\* the process is killed at any point before the end of the script.  Nothing
\* of the script runs after it.  A kill inside save_history (lines 51-53)
\* leaves the history file as it was when open(history_file, 'w') had not run
\* yet, cut short when open had truncated it and json.dump had not finished,
\* or whole; a kill inside the writing of a PDF (lines 254-256) leaves the PDF
\* absent or present.
Crash ==
    /\ pc \notin {"done", "crashed"}
    /\ pc' = "crashed"
    /\ IF pc = "save"
       THEN persisted' \in {persisted, FileCorrupt,
                            FileWritten(StampHistory(history))}
       ELSE persisted' = persisted
    /\ IF pc = "write"
       THEN disk' \in {disk, disk \cup {final_filename}}
       ELSE disk' = disk
    /\ UNCHANGED <<history, reached_2021, pdf_count, skipped_count,
                   recent_hashes, page_num, announcement_urls, announcement_index,
                   current_storage, announcement_url, date_str, pdf_links, pdf_index,
                   downloaded_in_this_announcement>>
    /\ KeepAttachment
    /\ NoFault

NextCrash == Next \/ Crash

SpecCrash == Init /\ [][NextCrash]_vars

\* whether sequence s is the beginning of sequence t
IsPrefix(s, t) == Len(s) <= Len(t) /\ SubSeq(t, 1, Len(s)) = s

\* C12: a crash at any point of a run, the write of the history file
\* included, loses no earlier record: what load_history returns from the file
\* the crash leaves begins with every record load_history returned from the
\* file as it was before the crash.
C12_CrashKeepsHistory ==
    [][ (pc' = "crashed")
            => IsPrefix(load_history(persisted).downloads,
                        load_history(persisted').downloads) ]_vars

\* C23: every step of a run leaves the records it found at the beginning of
\* the history, unchanged and in the same order, so the records of any
\* earlier state are a prefix of those of every later state; the records
\* change only when the history is loaded and when the file in hand is
\* retained, which adds its record at the end; the total never decreases.
C23_AppendOnly ==
    [][ /\ IsPrefix(Records, Records')
        /\ get_total_storage(history') >= TotalBytes
        /\ (Records' # Records) => pc \in {"load", "keep"}
        /\ (pc = "keep") => Records' = Append(Records, NewRecord)
      ]_vars

\* the run has ended with the loaded record first and two records appended
\* after it
C23_Witness ==
    /\ pc = "done"
    /\ Len(Records) = 3
    /\ Records[1] = OldRecord
    /\ pdf_count = 2

\* C24: a name enters the announcement's set only when its file has been
\* retained: the set grows only by the name of the file in hand, after its
\* record was appended and with its file in storage, and is otherwise only
\* emptied.  A transfer that fails has written nothing and leaves the set, the
\* history and the files as they were, so that right after it the checks let
\* the same link and name through again; and an attachment that the checks
\* let through goes to the transfer.
C24_FallbackLink ==
    [][ /\ (downloaded_in_this_announcement' # downloaded_in_this_announcement)
               => \/ downloaded_in_this_announcement' = {}
                  \/ /\ pc = "mark"
                     /\ downloaded_in_this_announcement' =
                            downloaded_in_this_announcement \cup {final_filename}
                     /\ Records[Len(Records)] = NewRecord
                     /\ final_filename \in disk
        /\ (pc = "download" /\ pc' = "download_error")
               => (/\ final_filename \notin disk'
                   /\ final_filename' = final_filename
                   /\ final_filename \notin downloaded_in_this_announcement'
                   /\ UNCHANGED <<history, disk,
                                  downloaded_in_this_announcement>>
                   /\ dup_reason' = "none")
        /\ (pc = "download_error")
               => UNCHANGED <<history, disk, downloaded_in_this_announcement>>
        /\ (pc = "dedup" /\ dup_reason = "none") => pc' = "download"
      ]_vars

\* the transfer of an attachment has failed with nothing written, the
\* announcement has another link, and the checks would let the same name
\* through again
C24_Witness ==
    /\ pc = "download_error"
    /\ response = NoContent
    /\ final_filename \notin disk
    /\ final_filename \notin downloaded_in_this_announcement
    /\ pdf_index < pdf_links
    /\ dup_reason = "none"

\* C25: the flag becomes true only in the step that reads the date of an
\* announcement, and only for a date that was parsed and is at or before the
\* boundary year; the storage check and the empty page leave it as it is.
C25_FlagOnlyFromDate ==
    [][ /\ (reached_2021' /\ ~reached_2021)
               => (/\ pc = "visit"
                   /\ \E t \in DateTexts :
                        /\ ParseDate(t) # <<>>
                        /\ ParseDate(t)[1] <= BOUNDARY_YEAR
                        /\ date_str' \in {ParseDate(t), <<>>})
        /\ (pc = "ann") => reached_2021' = reached_2021
        /\ (pc = "page") => reached_2021' = reached_2021
      ]_vars

\* what the run keeps track of: the history in memory and in its file, the
\* window, the announcement's set and the count of retained files
Tracking == <<history, persisted, recent_hashes,
              downloaded_in_this_announcement, pdf_count>>

\* C26: the checks before the transfer, the transfer, the write, the comparison
\* of the digests when it finds a match, and the handler of a failed transfer
\* leave the history, the history file, the total, the window, the
\* announcement's set and the count of retained files unchanged; the count of
\* skips goes up by one exactly when a check before the transfer or the
\* comparison of the digests finds a duplicate, and in no other step; the
\* count of retained files changes only when a file is retained.
C26_SkipLeavesTracking ==
    [][ /\ (pc \in {"dedup", "download", "write", "download_error"})
               => (UNCHANGED Tracking
                   /\ get_total_storage(history') = TotalBytes)
        /\ (pc = "hash" /\ pc' # "keep")
               => (UNCHANGED Tracking
                   /\ get_total_storage(history') = TotalBytes)
        /\ (pc = "dedup" /\ dup_reason # "none")
               => (pc' = "att" /\ skipped_count' = skipped_count + 1)
        /\ (pc = "hash" /\ matching_hashes(recent_hashes,
                                           calculate_file_hash(response)) # <<>>)
               => (pc' = "att" /\ skipped_count' = skipped_count + 1)
        /\ (skipped_count' # skipped_count)
               => \/ pc = "dedup" /\ dup_reason # "none"
                  \/ /\ pc = "hash"
                     /\ matching_hashes(recent_hashes,
                                        calculate_file_hash(response)) # <<>>
        /\ (pdf_count' # pdf_count) => pc = "keep"
      ]_vars

\* after a file was retained and an attachment skipped as a duplicate, a
\* transfer has failed
C26_Witness ==
    /\ pc = "download_error"
    /\ response = NoContent
    /\ pdf_count >= 1
    /\ skipped_count >= 1

\* C27: in every state every name in the announcement's set is the file name
\* of a record appended to the history in this run; so an attachment that the
\* same-batch check rejects has a file name that a record of the history has.
C27_BatchSetInHistory ==
    /\ \A f \in downloaded_in_this_announcement :
          \E i \in 1..Len(RunRecords) : RunRecords[i].filename = f
    /\ (pc = "dedup" /\ final_filename \in downloaded_in_this_announcement)
          => \E i \in 1..Len(Records) : Records[i].filename = final_filename

\* the same-batch check is about to reject a name that was retained earlier
\* in the announcement
C27_Witness ==
    /\ pc = "dedup"
    /\ final_filename \in downloaded_in_this_announcement
    /\ dup_reason = "Same file already downloaded from this announcement"
    /\ Records[Len(Records)].filename = final_filename

\* C28: in every state no two entries of the window have the same digest, no
\* two have the same file name, and every entry's file name is that of a
\* record appended to the history in this run.
C28_WindowDistinct ==
    /\ \A i, j \in 1..Len(recent_hashes) :
          i # j => /\ recent_hashes[i].hash # recent_hashes[j].hash
                   /\ recent_hashes[i].filename # recent_hashes[j].filename
    /\ \A i \in 1..Len(recent_hashes) :
          \E j \in 1..Len(RunRecords) :
              RunRecords[j].filename = recent_hashes[i].filename

\* the window at its fullest, between the append and the cut, after a file
\* was skipped for its content
C28_Witness ==
    /\ pc = "trim"
    /\ Len(recent_hashes) = SLIDING_WINDOW_SIZE + 1
    /\ skipped_count >= 1

\* C29: the file of every record of the history is in storage, in every
\* state of a run that started so; a transfer starts only for a name of which
\* there is no file; and the only step that takes a file out of storage is the
\* comparison of the digests, which takes out the file just written and no
\* other, a file that no record and no window entry names.
C29_RetainedFilesKept ==
    /\ [](\A i \in 1..Len(Records) : Records[i].filename \in disk)
    /\ []((pc \in {"download", "write"}) => final_filename \notin disk)
    /\ [][ (\E f \in disk : f \notin disk')
              => (/\ pc = "hash"
                  /\ disk' = disk \ {final_filename}
                  /\ \A i \in 1..Len(Records) :
                        Records[i].filename # final_filename
                  /\ \A i \in 1..Len(recent_hashes) :
                        recent_hashes[i].filename # final_filename)
         ]_vars

\* with three records in the history and their files in storage, the file
\* just written has the digest of a window entry and is about to be deleted
C29_Witness ==
    /\ pc = "hash"
    /\ Len(Records) = 3
    /\ final_filename \in disk
    /\ matching_hashes(recent_hashes, calculate_file_hash(response)) # <<>>
===========================================================================
